---- MODULE Spec2Model ----
(***************************************************************************)
(* Account REST service (service/routes.py): the five account handlers     *)
(* over the accounts table owned by the persistence layer.                 *)
(*                                                                         *)
(* Spec   : requests are served one at a time, one action per handler.     *)
(* SpecC  : one Update and one Delete request run concurrently; every      *)
(*          persistence call is atomic, the find and the later write of    *)
(*          one request are separate steps.                                *)
(***************************************************************************)
EXTENDS Integers, Sequences, FiniteSets, TLC

\* ---------------------------------------------------------------- bounds
\* number of ids the persistence layer hands out before Create is disabled
MaxId == 2

\* ------------------------------------------------------- program constants
HTTP_200_OK == 200
HTTP_201_CREATED == 201
HTTP_204_NO_CONTENT == 204
HTTP_400_BAD_REQUEST == 400
HTTP_404_NOT_FOUND == 404
HTTP_415_UNSUPPORTED_MEDIA_TYPE == 415

JSON == "application/json"

\* ------------------------------------------------------------ value sets
Ids == 1..MaxId
NoId == 0                       \* Account.id is None / key "id" absent
Missing == "<missing>"          \* attribute None / key absent from the body

\* request.headers.get("Content-Type"): <<>> is None, <<s>> is the string s
ContentTypes ==
    { <<>>, <<JSON>>, <<"text/plain">>, <<"application/json; charset=utf-8">> }

\* request body: json = FALSE is a body that is absent or not parseable JSON
NoData == [json |-> FALSE, id |-> NoId, name |-> Missing, email |-> Missing]
Body(id, name, email) == [json |-> TRUE, id |-> id, name |-> name, email |-> email]

\* values of the key "id" a client may put in a body
BodyIds == {NoId, 1, 2}

\* bodies that deserialize, with and without an "id" key
ValidBodies ==
    { Body(i, f[1], f[2]) : i \in BodyIds, f \in {<<"alice", "a@x">>, <<"bob", "b@x">>} }

\* bodies that do not: unparseable, "name" absent, "email" absent
InvalidBodies ==
    { NoData, Body(NoId, Missing, "a@x"), Body(NoId, "bob", Missing) }

Bodies == ValidBodies \cup InvalidBodies

\* ------------------------------------------- persistence (service.models)
\* Account(): a new, not yet persisted entity
NewAccount == [id |-> NoId, name |-> Missing, email |-> Missing]

\* Account.find(id): <<>> is None, <<a>> the entity found
AccountFind(table, account_id) ==
    LET hits == SelectSeq(table, LAMBDA a : a.id = account_id)
    IN  IF hits = <<>> THEN <<>> ELSE <<hits[1]>>

\* Account.all(): the rows in the table's enumeration order
AccountAll(table) == table

\* account.deserialize(data): assigns the fields one after the other and
\* raises on a body that is not a JSON object or lacks a required key; the
\* entity keeps what was assigned before the raise.  "id" is never read.
Deserialize(account, data) ==
    IF ~data.json THEN [ok |-> FALSE, account |-> account]
    ELSE IF data.name = Missing THEN [ok |-> FALSE, account |-> account]
    ELSE IF data.email = Missing
         THEN [ok |-> FALSE, account |-> [account EXCEPT !.name = data.name]]
    ELSE [ok |-> TRUE,
          account |-> [account EXCEPT !.name = data.name, !.email = data.email]]

\* account.serialize(): the wire dictionary of an entity
Serialize(account) ==
    [id |-> account.id, name |-> account.name, email |-> account.email]

\* account.create(): insert; the persistence layer assigns the next id
AccountCreate(table, seq, account) ==
    LET row == [account EXCEPT !.id = seq]
    IN  [account |-> row, table |-> Append(table, row), seq |-> seq + 1]

\* account.update(): writes the entity's fields to the row with its id
AccountUpdate(table, account) ==
    [i \in 1..Len(table) |->
        IF table[i].id = account.id THEN account ELSE table[i]]

\* account.delete(): removes the row with the entity's id
AccountDelete(table, account) ==
    SelectSeq(table, LAMBDA a : a.id # account.id)

\* ------------------------------------------------------------- responses
Response(code, kind, body, location) ==
    [status |-> code, kind |-> kind, body |-> body, location |-> location]

\* abort(code, message): the request ends with an error response
Abort(code) == Response(code, "error", <<>>, NoId)

NoResponse == Response(0, "none", <<>>, NoId)

Result(resp, table, seq) == [resp |-> resp, table |-> table, seq |-> seq]

\* --------------------------------------------------- handlers (routes.py)
\* variant: compares only the media type, ignoring parameters after ";"
check_content_type_lenient(content_type, media_type) ==
    /\ content_type # <<>>
    /\ content_type[1] \in {media_type, "application/json; charset=utf-8"}

\* check_content_type(media_type): TRUE when it returns, FALSE when it aborts
check_content_type(content_type, media_type) ==
    /\ content_type # <<>>
    /\ content_type[1] # ""
    /\ content_type[1] = media_type

\* variant: the "id" key of the body is kept as the new row's id
create_accounts_body_id(table, seq, content_type, data) ==
    IF ~check_content_type(content_type, JSON)
    THEN Result(Abort(HTTP_415_UNSUPPORTED_MEDIA_TYPE), table, seq)
    ELSE LET d == Deserialize(NewAccount, data)
         IN  IF ~d.ok
             THEN Result(Abort(HTTP_400_BAD_REQUEST), table, seq)
             ELSE LET id == IF data.id # NoId THEN data.id ELSE seq
                      row == [d.account EXCEPT !.id = id]
                  IN  Result(Response(HTTP_201_CREATED, "object",
                                      <<Serialize(row)>>, id),
                             Append(table, row), seq + 1)

\* variant: serialize() is called before create(), while id is still None
create_accounts_serialize_first(table, seq, content_type, data) ==
    IF ~check_content_type(content_type, JSON)
    THEN Result(Abort(HTTP_415_UNSUPPORTED_MEDIA_TYPE), table, seq)
    ELSE LET d == Deserialize(NewAccount, data)
         IN  IF ~d.ok
             THEN Result(Abort(HTTP_400_BAD_REQUEST), table, seq)
             ELSE LET c == AccountCreate(table, seq, d.account)
                  IN  Result(Response(HTTP_201_CREATED, "object",
                                      <<Serialize(d.account)>>, c.account.id),
                             c.table, c.seq)

\* variant: create() is called on whatever deserialize() left in the entity
create_accounts_insert_anyway(table, seq, content_type, data) ==
    IF ~check_content_type(content_type, JSON)
    THEN Result(Abort(HTTP_415_UNSUPPORTED_MEDIA_TYPE), table, seq)
    ELSE LET d == Deserialize(NewAccount, data)
             c == AccountCreate(table, seq, d.account)
         IN  IF ~d.ok
             THEN Result(Abort(HTTP_400_BAD_REQUEST), c.table, c.seq)
             ELSE Result(Response(HTTP_201_CREATED, "object",
                                  <<Serialize(c.account)>>, c.account.id),
                         c.table, c.seq)

create_accounts(table, seq, content_type, data) ==
    IF ~check_content_type(content_type, JSON)
    THEN Result(Abort(HTTP_415_UNSUPPORTED_MEDIA_TYPE), table, seq)
    ELSE LET d == Deserialize(NewAccount, data)
         IN  IF ~d.ok
             THEN Result(Abort(HTTP_400_BAD_REQUEST), table, seq)
             ELSE LET c == AccountCreate(table, seq, d.account)
                  IN  Result(Response(HTTP_201_CREATED, "object",
                                      <<Serialize(c.account)>>, c.account.id),
                             c.table, c.seq)

list_accounts(table, seq) ==
    LET accounts == AccountAll(table)
        account_list == [i \in 1..Len(accounts) |-> Serialize(accounts[i])]
    IN  Result(Response(HTTP_200_OK, "list", account_list, NoId), table, seq)

\* variant: the "if not account" test is missing
get_account_no_404(table, seq, account_id) ==
    LET account == AccountFind(table, account_id)
    IN  Result(Response(HTTP_200_OK, "object",
                        IF account = <<>> THEN <<>> ELSE <<Serialize(account[1])>>,
                        NoId), table, seq)

get_account(table, seq, account_id) ==
    LET account == AccountFind(table, account_id)
    IN  IF account = <<>>
        THEN Result(Abort(HTTP_404_NOT_FOUND), table, seq)
        ELSE Result(Response(HTTP_200_OK, "object",
                             <<Serialize(account[1])>>, NoId), table, seq)

\* variant: update() runs although deserialize() raised
update_found_partial(table, seq, account, content_type, data) ==
    IF ~check_content_type(content_type, JSON)
    THEN Result(Abort(HTTP_415_UNSUPPORTED_MEDIA_TYPE), table, seq)
    ELSE LET d == Deserialize(account, data)
         IN  IF ~d.ok
             THEN Result(Abort(HTTP_400_BAD_REQUEST),
                         AccountUpdate(table, d.account), seq)
             ELSE Result(Response(HTTP_200_OK, "object",
                                  <<Serialize(d.account)>>, NoId),
                         AccountUpdate(table, d.account), seq)

\* variant: the "id" key of the body overwrites the entity's id
update_found_body_id(table, seq, account, content_type, data) ==
    IF ~check_content_type(content_type, JSON)
    THEN Result(Abort(HTTP_415_UNSUPPORTED_MEDIA_TYPE), table, seq)
    ELSE LET d == Deserialize(account, data)
             a == IF data.id # NoId THEN [d.account EXCEPT !.id = data.id]
                  ELSE d.account
         IN  IF ~d.ok
             THEN Result(Abort(HTTP_400_BAD_REQUEST), table, seq)
             ELSE Result(Response(HTTP_200_OK, "object", <<Serialize(a)>>, NoId),
                         [i \in 1..Len(table) |->
                             IF table[i].id = account.id THEN a ELSE table[i]],
                         seq)

\* update_account after its find returned an entity (lines 98-102)
update_found(table, seq, account, content_type, data) ==
    IF ~check_content_type(content_type, JSON)
    THEN Result(Abort(HTTP_415_UNSUPPORTED_MEDIA_TYPE), table, seq)
    ELSE LET d == Deserialize(account, data)
         IN  IF ~d.ok
             THEN Result(Abort(HTTP_400_BAD_REQUEST), table, seq)
             ELSE Result(Response(HTTP_200_OK, "object",
                                  <<Serialize(d.account)>>, NoId),
                         AccountUpdate(table, d.account), seq)

\* variant: the Content-Type check is made before the find
update_account_check_first(table, seq, account_id, content_type, data) ==
    LET account == AccountFind(table, account_id)
    IN  IF ~check_content_type(content_type, JSON)
        THEN Result(Abort(HTTP_415_UNSUPPORTED_MEDIA_TYPE), table, seq)
        ELSE IF account = <<>>
        THEN Result(Abort(HTTP_404_NOT_FOUND), table, seq)
        ELSE update_found(table, seq, account[1], content_type, data)

update_account(table, seq, account_id, content_type, data) ==
    LET account == AccountFind(table, account_id)
    IN  IF account = <<>>
        THEN Result(Abort(HTTP_404_NOT_FOUND), table, seq)
        ELSE update_found(table, seq, account[1], content_type, data)

\* variant: a missing account is reported as an error
delete_found_404(table, seq, found) ==
    IF found = <<>>
    THEN Result(Abort(HTTP_404_NOT_FOUND), table, seq)
    ELSE Result(Response(HTTP_204_NO_CONTENT, "empty", <<>>, NoId),
                AccountDelete(table, found[1]), seq)

\* variant: the test on the entity found is inverted
delete_found_inverted(table, seq, found) ==
    Result(Response(HTTP_204_NO_CONTENT, "empty", <<>>, NoId),
           IF found = <<>> THEN AccountDelete(table, NewAccount) ELSE table,
           seq)

\* delete_account after its find (lines 114-117); found is <<>> or <<a>>
delete_found(table, seq, found) ==
    Result(Response(HTTP_204_NO_CONTENT, "empty", <<>>, NoId),
           IF found # <<>> THEN AccountDelete(table, found[1]) ELSE table,
           seq)

delete_account(table, seq, account_id) ==
    delete_found(table, seq, AccountFind(table, account_id))

\* ------------------------------------------------------------------ state
VARIABLES
    table,      \* the accounts table, rows in insertion order
    seq,        \* next id the persistence layer assigns
    req,        \* the last request served
    resp,       \* its response
    before,     \* the table as it was when that request arrived
    prev,       \* summary of the request served before the last one
    created,    \* per id: the 201 body of its Create, until a PUT/DELETE on it
    proc        \* SpecC: the two requests in flight

vars == <<table, seq, req, resp, before, prev, created, proc>>

Request(op, account_id, content_type, data) ==
    [op |-> op, id |-> account_id, ct |-> content_type, data |-> data]

NoRequest == Request("none", NoId, <<>>, NoData)

\* what is remembered of a request once the next one is served: the id it
\* was about (for a Create the id it returned) and whether that id was in
\* the table when it arrived
Summary(request, response, tbl) ==
    LET id == IF request.op = "create" THEN response.location ELSE request.id
    IN  [op |-> request.op, id |-> id, status |-> response.status,
         existed |-> AccountFind(tbl, id) # <<>>]

Idle == [pc |-> "idle", id |-> NoId, ct |-> <<>>, data |-> NoData,
         found |-> <<>>, resp |-> NoResponse, stale |-> FALSE]

Serve(r, request) ==
    /\ table' = r.table
    /\ seq' = r.seq
    /\ resp' = r.resp
    /\ req' = request
    /\ before' = table
    /\ prev' = Summary(req, resp, before)
    /\ UNCHANGED proc

Init ==
    /\ table = <<>>
    /\ seq = 1
    /\ req = NoRequest
    /\ resp = NoResponse
    /\ before = <<>>
    /\ prev = Summary(NoRequest, NoResponse, <<>>)
    /\ created = [i \in Ids |-> <<>>]
    /\ proc = [p \in {"U", "D"} |-> Idle]

Create ==
    \E ct \in ContentTypes, data \in Bodies :
        /\ seq <= MaxId
        /\ LET r == create_accounts(table, seq, ct, data)
           IN  /\ Serve(r, Request("create", NoId, ct, data))
               /\ created' = IF r.resp.status = HTTP_201_CREATED
                                /\ r.resp.location \in Ids
                             THEN [created EXCEPT ![r.resp.location] = r.resp.body]
                             ELSE created

List ==
    /\ Serve(list_accounts(table, seq), Request("list", NoId, <<>>, NoData))
    /\ UNCHANGED created

Read ==
    \E id \in Ids :
        /\ Serve(get_account(table, seq, id), Request("read", id, <<>>, NoData))
        /\ UNCHANGED created

Update ==
    \E id \in Ids, ct \in ContentTypes, data \in Bodies :
        /\ Serve(update_account(table, seq, id, ct, data),
                 Request("update", id, ct, data))
        /\ created' = [created EXCEPT ![id] = <<>>]

Delete ==
    \E id \in Ids :
        /\ Serve(delete_account(table, seq, id), Request("delete", id, <<>>, NoData))
        /\ created' = [created EXCEPT ![id] = <<>>]

Next == Create \/ List \/ Read \/ Update \/ Delete

Spec == Init /\ [][Next]_vars

\* ------------------------------------------ concurrent Update and Delete
\* tables the service reaches once every id has been handed out
RECURSIVE TablesOver(_)
TablesOver(n) ==
    IF n = 0 THEN { <<>> }
    ELSE LET shorter == TablesOver(n - 1)
         IN  shorter \cup
             { Append(t, [id |-> n, name |-> f[1], email |-> f[2]]) :
                 t \in shorter, f \in {<<"alice", "a@x">>, <<"bob", "b@x">>} }

InitC ==
    /\ table \in TablesOver(MaxId)
    /\ seq = MaxId + 1
    /\ req = NoRequest
    /\ resp = NoResponse
    /\ before = <<>>
    /\ prev = Summary(NoRequest, NoResponse, <<>>)
    /\ created = [i \in Ids |-> <<>>]
    /\ \E uid \in Ids, did \in Ids, ct \in ContentTypes, data \in Bodies :
          proc = [U |-> [Idle EXCEPT !.pc = "find", !.id = uid, !.ct = ct, !.data = data],
                  D |-> [Idle EXCEPT !.pc = "find", !.id = did]]

Sequential == <<req, resp, before, prev, created>>

\* update_account line 94-96
UpdateFind ==
    /\ proc.U.pc = "find"
    /\ LET account == AccountFind(table, proc.U.id)
       IN  proc' = IF account = <<>>
                   THEN [proc EXCEPT !.U.pc = "done",
                                     !.U.resp = Abort(HTTP_404_NOT_FOUND)]
                   ELSE [proc EXCEPT !.U.pc = "write", !.U.found = account]
    /\ UNCHANGED <<table, seq, Sequential>>

\* update_account line 98-102, on the entity found earlier
UpdateWrite ==
    /\ proc.U.pc = "write"
    /\ LET r == update_found(table, seq, proc.U.found[1], proc.U.ct, proc.U.data)
       IN  /\ table' = r.table
           /\ proc' = [proc EXCEPT !.U.pc = "done", !.U.resp = r.resp,
                                   !.U.stale = (AccountFind(table, proc.U.id) = <<>>)]
    /\ UNCHANGED <<seq, Sequential>>

\* delete_account line 113
DeleteFind ==
    /\ proc.D.pc = "find"
    /\ proc' = [proc EXCEPT !.D.pc = "write",
                            !.D.found = AccountFind(table, proc.D.id)]
    /\ UNCHANGED <<table, seq, Sequential>>

\* delete_account line 114-117
DeleteWrite ==
    /\ proc.D.pc = "write"
    /\ LET r == delete_found(table, seq, proc.D.found)
       IN  /\ table' = r.table
           /\ proc' = [proc EXCEPT !.D.pc = "done", !.D.resp = r.resp]
    /\ UNCHANGED <<seq, Sequential>>

NextC == UpdateFind \/ UpdateWrite \/ DeleteFind \/ DeleteWrite

SpecC == InitC /\ [][NextC]_vars

\* ------------------------------------------------------------ properties
\* the Content-Type header is missing or is not exactly application/json
BadContentType(content_type) ==
    \/ content_type = <<>>
    \/ content_type[1] # "application/json"

InTable(tbl, id) == \E i \in 1..Len(tbl) : tbl[i].id = id

IdsOf(tbl) == { tbl[i].id : i \in 1..Len(tbl) }

Occurrences(dicts, id) == Cardinality({ i \in 1..Len(dicts) : dicts[i].id = id })

\* C1 as stated: every Create and every Update with a missing or wrong
\* Content-Type is answered 415, also an Update of an id not in the store.
C1_AlwaysUnsupportedMediaType ==
    (req.op \in {"create", "update"} /\ BadContentType(req.ct))
        => resp.status = 415

\* C1 amended: every Create with a missing or wrong Content-Type is answered
\* 415 whatever the body and the store; every Update with a missing or wrong
\* Content-Type is answered 415 when its id is in the store.
C1_UnsupportedMediaType ==
    /\ (req.op = "create" /\ BadContentType(req.ct)) => resp.status = 415
    /\ (req.op = "update" /\ BadContentType(req.ct) /\ InTable(before, req.id))
          => resp.status = 415

C1_Witness ==
    /\ req.op = "update"
    /\ req.ct = <<"application/json; charset=utf-8">>
    /\ req.data \in ValidBodies
    /\ InTable(before, req.id)
    /\ resp.status = 415

\* C2: an Update of an id that is not in the store is answered 404 for every
\* Content-Type and body, and leaves the table as it was.
C2_UpdateNotFound ==
    (req.op = "update" /\ ~InTable(before, req.id))
        => (resp.status = 404 /\ table = before)

C2_Witness ==
    /\ req.op = "update"
    /\ ~InTable(before, req.id)
    /\ BadContentType(req.ct)
    /\ before # <<>>
    /\ resp.status = 404

\* C3: every Delete is answered 204 with an empty body and leaves its id out
\* of the table; a second Delete of the same id changes nothing; a List after
\* a Delete does not contain the id; a Delete of an absent id changes nothing.
C3_DeleteIdempotent ==
    /\ req.op = "delete"
          => /\ resp.status = 204 /\ resp.kind = "empty" /\ resp.body = <<>>
             /\ ~InTable(table, req.id)
    /\ (req.op = "delete" /\ prev.op = "delete" /\ prev.id = req.id)
          => (prev.status = 204 /\ table = before)
    /\ (req.op = "list" /\ prev.op = "delete")
          => Occurrences(resp.body, prev.id) = 0
    /\ (req.op = "delete" /\ ~InTable(before, req.id)) => table = before

C3_Witness ==
    /\ req.op = "delete" /\ prev.op = "delete" /\ prev.id = req.id
    /\ prev.existed
    /\ before # <<>>
    /\ resp.status = 204

\* C4: a Create answered 201 returns an id that no row had before, the table
\* and a List served right after hold that id exactly once, and no two rows
\* of the table share an id.
C4_FreshId ==
    /\ (req.op = "create" /\ resp.status = 201)
          => /\ resp.body[1].id >= 1
             /\ ~InTable(before, resp.body[1].id)
             /\ Occurrences(table, resp.body[1].id) = 1
    /\ (req.op = "list" /\ prev.op = "create" /\ prev.status = 201)
          => Occurrences(resp.body, prev.id) = 1
    /\ \A i, j \in 1..Len(table) : table[i].id = table[j].id => i = j

C4_Witness ==
    /\ req.op = "list" /\ prev.op = "create" /\ prev.status = 201
    /\ prev.id = 2
    /\ ~InTable(table, 1)
    /\ Len(resp.body) = 1

\* C5: a Read of an id whose Create was answered 201, with no PUT or DELETE
\* on that id since, is answered 200 with the body of the 201 response.
C5_CreateThenRead ==
    (req.op = "read" /\ created[req.id] # <<>>)
        => (resp.status = 200 /\ resp.kind = "object" /\ resp.body = created[req.id])

C5_Witness ==
    /\ req.op = "read" /\ created[req.id] # <<>>
    /\ prev.op = "update" /\ prev.status = 200 /\ prev.id # req.id
    /\ resp.status = 200

\* C6: a Read is answered 404 exactly when its id is not in the table, else
\* 200 with that account; a Read after a Delete of the id is answered 404;
\* a Read leaves the table as it was.
C6_ReadNotFound ==
    req.op = "read"
        => /\ resp.status = 404 <=> ~InTable(before, req.id)
           /\ InTable(before, req.id)
                 => /\ resp.status = 200
                    /\ Len(resp.body) = 1
                    /\ resp.body[1].id = req.id
                    /\ \E i \in 1..Len(before) :
                          /\ before[i].id = req.id
                          /\ before[i].name = resp.body[1].name
                          /\ before[i].email = resp.body[1].email
           /\ (prev.op = "delete" /\ prev.id = req.id) => resp.status = 404
           /\ table = before

C6_Witness ==
    /\ req.op = "read" /\ prev.op = "delete" /\ prev.id = req.id
    /\ prev.existed
    /\ resp.status = 404

\* C7: an Update of an id in the table either is answered 200 and has put
\* the name and email of the body in the row with that id, the other rows
\* unchanged, or is answered 415 or 400 and has left the table as it was.
C7_NoPartialUpdate ==
    (req.op = "update" /\ InTable(before, req.id))
        => \/ /\ resp.status = 200
              /\ Len(table) = Len(before)
              /\ \A i \in 1..Len(before) :
                    IF before[i].id = req.id
                    THEN /\ table[i].name = req.data.name
                         /\ table[i].email = req.data.email
                    ELSE table[i] = before[i]
           \/ /\ resp.status \in {415, 400}
              /\ table = before

C7_Witness ==
    /\ req.op = "update" /\ resp.status = 400
    /\ req.data = Body(NoId, "bob", Missing)
    /\ \E i \in 1..Len(before) : before[i].id = req.id /\ before[i].name = "alice"

\* C8: an Update answered 200 returns the account with the id of the path
\* and leaves the set of ids in the table unchanged, whatever "id" the body
\* carries.
C8_StableId ==
    (req.op = "update" /\ resp.status = 200)
        => /\ Len(resp.body) = 1
           /\ resp.body[1].id = req.id
           /\ IdsOf(table) = IdsOf(before)
           /\ Len(table) = Len(before)

C8_Witness ==
    /\ req.op = "update" /\ resp.status = 200
    /\ req.data.id # NoId /\ req.data.id # req.id
    /\ InTable(before, req.data.id)

\* C9: a Create answered 201 appends exactly one row and changes no other;
\* a Create answered 415 or 400 leaves the table as it was.
C9_CreateFrame ==
    req.op = "create"
        => \/ /\ resp.status = 201
              /\ Len(table) = Len(before) + 1
              /\ SubSeq(table, 1, Len(before)) = before
           \/ /\ resp.status \in {415, 400}
              /\ table = before

C9_Witness ==
    /\ req.op = "create" /\ resp.status = 400
    /\ req.data = Body(NoId, "bob", Missing)
    /\ before # <<>>

\* C10: once a concurrent Update and Delete of the same id have both
\* completed and the Delete was answered 204, no row has that id.
C10_DeleteWins ==
    (/\ proc.U.pc = "done" /\ proc.D.pc = "done"
     /\ proc.U.id = proc.D.id
     /\ proc.D.resp.status = 204)
        => ~InTable(table, proc.D.id)

C10_Witness ==
    /\ proc.U.pc = "done" /\ proc.D.pc = "done"
    /\ proc.U.id = proc.D.id
    /\ proc.D.found # <<>>
    /\ proc.U.stale
    /\ proc.U.resp.status = 200
    /\ proc.D.resp.status = 204

====
